---- MODULE Spec2Model ----
(***************************************************************************)
(* Model of expliot_finder/scraper/core/sites_finder.py: GoogleSitesFinder *)
(* builds a Google search URL for a captured service version, sends one    *)
(* GET, extracts the absolute links of the response and keeps those that   *)
(* start with the requested site.                                          *)
(*                                                                         *)
(* A Python str is modelled as a sequence of characters.  An ASCII         *)
(* character is the one-character string itself; a non-ASCII character is  *)
(* written by its code point name ("U+00E9").                              *)
(***************************************************************************)
EXTENDS Integers, Sequences, FiniteSets, TLC

VARIABLES
    service_version,      \* the str handed to GoogleSitesFinder(...)
    stored_search_query,  \* [Inst -> str]: the slot _search_query
    ctor_version,         \* [Inst -> str]: the version the constructor got
    reads,                \* [Inst -> Seq(str)]: values the getter returned
    pc,                   \* [Inst -> position inside search_for_pages]
    site,                 \* [Inst -> str]: argument of search_for_pages
    requested,            \* [Inst -> Seq(str)]: URLs passed to session.get
    response,             \* [Inst -> HTMLResponse or NoResponse]
    urls,                 \* [Inst -> list[str] or NoList]: __extract_urls
    result,               \* [Inst -> list[str] or NoList]: value returned
    outcome,              \* [Inst -> how the last call ended]
    repr_raised,          \* exception the last repr() call raised
    f_site,               \* filter_extracted_urls argument 'site'
    f_urls,               \* filter_extracted_urls argument 'urls'
    f_ret                 \* filter_extracted_urls return value

vars == <<service_version, stored_search_query, ctor_version, reads, pc, site,
          requested, response, urls, result, outcome, repr_raised,
          f_site, f_urls, f_ret>>

\* ------------------------------------------------------------------------
\* Bounds of the model
\* ------------------------------------------------------------------------
MaxVersionLen == 2
MaxReads == 2
MaxUrls == 3
MaxUrlLen == 1

\* ------------------------------------------------------------------------
\* Strings
\* ------------------------------------------------------------------------
\* None where a str, a list[str] or an HTMLResponse is expected
NoStr == <<"None">>

NoList == <<<<"None">>>>

NoResponse == [status_code |-> 0, absolute_links |-> {}]

Inst == {"finder_a", "finder_b"}

RECURSIVE Flatten(_)
Flatten(ss) == IF ss = <<>> THEN <<>> ELSE Head(ss) \o Flatten(Tail(ss))

Chars(s) == {s[k] : k \in 1..Len(s)}

\* str.replace(old, new) for one-character old and new
Replace(s, old, new) == [k \in 1..Len(s) |-> IF s[k] = old THEN new ELSE s[k]]

\* str.startswith
startswith(s, prefix) ==
    /\ Len(prefix) <= Len(s)
    /\ SubSeq(s, 1, Len(prefix)) = prefix

StringsUpTo(alphabet, n) == UNION {[1..k -> alphabet] : k \in 0..n}

\* ord() on the characters the model uses
CharCodes ==
    { <<" ", 32>>, <<"%", 37>>, <<"&", 38>>, <<"+", 43>>, <<"-", 45>>,
      <<".", 46>>, <<"/", 47>>, <<"0", 48>>, <<"1", 49>>, <<"2", 50>>,
      <<"3", 51>>, <<"4", 52>>, <<"5", 53>>, <<"6", 54>>, <<"7", 55>>,
      <<"8", 56>>, <<"9", 57>>, <<":", 58>>, <<"=", 61>>, <<"?", 63>>,
      <<"A", 65>>, <<"B", 66>>, <<"C", 67>>, <<"D", 68>>, <<"E", 69>>,
      <<"F", 70>>, <<"H", 72>>, <<"O", 79>>, <<"S", 83>>, <<"a", 97>>,
      <<"b", 98>>, <<"c", 99>>, <<"d", 100>>, <<"e", 101>>, <<"g", 103>>,
      <<"h", 104>>, <<"i", 105>>, <<"k", 107>>, <<"l", 108>>, <<"m", 109>>,
      <<"n", 110>>, <<"o", 111>>, <<"p", 112>>, <<"q", 113>>, <<"r", 114>>,
      <<"s", 115>>, <<"t", 116>>, <<"u", 117>>, <<"v", 118>>, <<"w", 119>>,
      <<"x", 120>>, <<"U+00E9", 233>>, <<"U+20AC", 8364>> }

ReplacementChar == "U+FFFD"

Ord(c) == (CHOOSE p \in CharCodes : p[1] = c)[2]

Chr(n) == IF \E p \in CharCodes : p[2] = n
          THEN (CHOOSE p \in CharCodes : p[2] = n)[1]
          ELSE ReplacementChar

\* str.encode("utf-8") of one character, as a sequence of bytes
Utf8Encode(c) ==
    LET n == Ord(c) IN
    IF n < 128 THEN <<n>>
    ELSE IF n < 2048 THEN <<192 + (n \div 64), 128 + (n % 64)>>
    ELSE <<224 + (n \div 4096), 128 + ((n \div 64) % 64), 128 + (n % 64)>>

IsCont(b) == b >= 128 /\ b < 192

\* bytes.decode("utf-8", errors="replace")
RECURSIVE Utf8Decode(_)
Utf8Decode(bs) ==
    IF bs = <<>> THEN <<>>
    ELSE LET b == Head(bs) IN
         IF b < 128 THEN <<Chr(b)>> \o Utf8Decode(Tail(bs))
         ELSE IF b >= 194 /\ b < 224 /\ Len(bs) >= 2 /\ IsCont(bs[2])
              THEN <<Chr((b - 192) * 64 + (bs[2] - 128))>>
                   \o Utf8Decode(SubSeq(bs, 3, Len(bs)))
         ELSE IF b >= 224 /\ b < 240 /\ Len(bs) >= 3
                 /\ IsCont(bs[2]) /\ IsCont(bs[3])
              THEN <<Chr((b - 224) * 4096 + (bs[2] - 128) * 64 + (bs[3] - 128))>>
                   \o Utf8Decode(SubSeq(bs, 4, Len(bs)))
         ELSE <<ReplacementChar>> \o Utf8Decode(Tail(bs))

HexDigits == <<"0", "1", "2", "3", "4", "5", "6", "7",
               "8", "9", "A", "B", "C", "D", "E", "F">>

HexValue(c) == (CHOOSE k \in 1..16 : HexDigits[k] = c) - 1

IsHex(c) == \E k \in 1..16 : HexDigits[k] = c

\* '%{:02X}'.format(byte)
PercentByte(b) == <<"%", HexDigits[(b \div 16) + 1], HexDigits[(b % 16) + 1]>>

\* ------------------------------------------------------------------------
\* urllib.parse, as called at sites_finder.py:91
\* ------------------------------------------------------------------------
\* urllib.parse._ALWAYS_SAFE
AlwaysSafe ==
    { "A", "B", "C", "D", "E", "F", "H", "O", "S",
      "a", "b", "c", "d", "e", "g", "h", "i", "k", "l", "m", "n", "o", "p",
      "q", "r", "s", "t", "u", "v", "w", "x",
      "0", "1", "2", "3", "4", "5", "6", "7", "8", "9",
      "_", ".", "-", "~" }

\* urllib.parse.quote(string, safe): every byte of the UTF-8 encoding that
\* is not safe becomes %XX
quote(string, safe) ==
    Flatten([k \in 1..Len(string) |->
        IF string[k] \in AlwaysSafe \cup safe
        THEN <<string[k]>>
        ELSE Flatten([j \in 1..Len(Utf8Encode(string[k])) |->
                         PercentByte(Utf8Encode(string[k])[j])])])

\* quote_plus with '+' left alone and the space not replaced
quote_plus_raw(string) == quote(string, {" ", "+"})

\* urllib.parse.quote_plus(string)
quote_plus(string) ==
    IF " " \notin Chars(string)
    THEN quote(string, {})
    ELSE Replace(quote(string, {" "}), " ", "+")

\* urllib.parse.unquote_to_bytes followed by decode: %XX becomes a byte,
\* any other character stands for its own bytes
RECURSIVE UnquoteToBytes(_)
UnquoteToBytes(s) ==
    IF s = <<>> THEN <<>>
    ELSE IF s[1] = "%" /\ Len(s) >= 3 /\ IsHex(s[2]) /\ IsHex(s[3])
         THEN <<HexValue(s[2]) * 16 + HexValue(s[3])>>
              \o UnquoteToBytes(SubSeq(s, 4, Len(s)))
         ELSE Utf8Encode(s[1]) \o UnquoteToBytes(Tail(s))

unquote(s) == Utf8Decode(UnquoteToBytes(s))

\* urllib.parse.unquote_plus
unquote_plus(s) == unquote(Replace(s, "+", " "))

\* ------------------------------------------------------------------------
\* GoogleSitesFinder
\* ------------------------------------------------------------------------
base_query ==
    <<"h","t","t","p","s",":","/","/","w","w","w",".","g","o","o","g","l","e",
      ".","c","o",".","u","k","/","s","e","a","r","c","h","?","q","=">>

ExploitSuffix == <<" ","e","x","p","l","o","i","t">>

\* the setter without the percent-encoding
search_query_set_unquoted(version) == base_query \o version

\* search_query.setter: the value written to the slot _search_query
search_query_set(version) == base_query \o quote_plus(version)

\* the getter without the suffix
search_query_get_stored(stored) == stored

\* search_query getter
search_query_get(stored) == stored \o ExploitSuffix

OpenSSH72 == <<"O","p","e","n","S","S","H"," ","7",".","2">>

VersionAlphabet == {"a", "7", " ", "&", "=", "+", "%", "U+00E9", "U+20AC"}

\* the version strings a constructor is given: every non-empty string over
\* VersionAlphabet up to MaxVersionLen, and the documented example
VersionStrings ==
    (StringsUpTo(VersionAlphabet, MaxVersionLen) \ {<<>>}) \cup {OpenSSH72}


\* the version strings the finders of the pipeline model are given
MainVersions == {OpenSSH72, <<"a", "&">>}

\* the version each finder of the pipeline model was constructed with
InitialVersion == [i \in Inst |-> IF i = "finder_a" THEN OpenSSH72 ELSE <<"a", "&">>]

ExploitDbSite ==
    <<"h","t","t","p","s",":","/","/","w","w","w",".","e","x","p","l","o","i",
      "t","-","d","b",".","c","o","m">>

CveDetailsSite ==
    <<"h","t","t","p","s",":","/","/","w","w","w",".","c","v","e","d","e","t",
      "a","i","l","s",".","c","o","m">>

ExploitDbUrl == ExploitDbSite \o <<"/","e","x","p","l","o","i","t","s","/","1">>

CveDetailsUrl == CveDetailsSite \o <<"/","x">>

EvilPathUrl ==
    <<"h","t","t","p","s",":","/","/","e","v","i","l",".","e","x","a","m","p",
      "l","e","/">> \o ExploitDbSite

EvilHostUrl ==
    ExploitDbSite \o <<".","e","v","i","l",".","e","x","a","m","p","l","e","/","x">>

\* the 'site' values exploit_finder.executor passes
Sites == {ExploitDbSite, CveDetailsSite}

\* the absolute links a response may hold
Links == {ExploitDbUrl, CveDetailsUrl}

StatusCodes == {200, 429}

\* an HTMLResponse: the status and the set response.html.absolute_links
Responses == [status_code : StatusCodes, absolute_links : SUBSET Links]

\* exceptions requests raises out of session.get
RequestExceptions == {"ConnectionError", "Timeout"}

\* exception lxml raises when the document cannot be parsed
ParserError == "ParserError"

\* every list holding each element of the set S exactly once
ListsOf(S) ==
    {l \in [1..Cardinality(S) -> S] : \A x \in S : \E k \in DOMAIN l : l[k] = x}

\* filter_extracted_urls with a substring test in place of startswith
filter_extracted_urls_contains(site_, urls_) ==
    SelectSeq(urls_, LAMBDA url :
        \E k \in 0..Len(url) : startswith(SubSeq(url, k + 1, Len(url)), site_))

\* GoogleSitesFinder.filter_extracted_urls
filter_extracted_urls(site_, urls_) ==
    SelectSeq(urls_, LAMBDA url : startswith(url, site_))

pipeline_vars == <<pc, site, requested, response, urls, result, outcome>>

filter_vars == <<f_site, f_urls, f_ret>>

\* ------------------------------------------------------------------------
\* Operations on one finder
\* ------------------------------------------------------------------------
\* __init__(service_version): assigns through the setter
Construct(i) ==
    /\ stored_search_query[i] = NoStr
    /\ stored_search_query' =
           [stored_search_query EXCEPT ![i] = search_query_set(service_version)]
    /\ ctor_version' = [ctor_version EXCEPT ![i] = service_version]
    /\ UNCHANGED <<service_version, reads, repr_raised>>
    /\ UNCHANGED pipeline_vars
    /\ UNCHANGED filter_vars

\* a read of finder.search_query
ReadQuery(i) ==
    /\ stored_search_query[i] # NoStr
    /\ Len(reads[i]) < MaxReads
    /\ reads' = [reads EXCEPT
                    ![i] = Append(@, search_query_get(stored_search_query[i]))]
    /\ UNCHANGED <<service_version, stored_search_query, ctor_version,
                   repr_raised>>
    /\ UNCHANGED pipeline_vars
    /\ UNCHANGED filter_vars

\* finder.search_query = version
AssignQuery(i, version) ==
    /\ stored_search_query[i] # NoStr
    /\ stored_search_query' =
           [stored_search_query EXCEPT ![i] = search_query_set(version)]
    /\ UNCHANGED <<service_version, ctor_version, reads, repr_raised>>
    /\ UNCHANGED pipeline_vars
    /\ UNCHANGED filter_vars

\* repr(finder): vars() of an object that has __slots__ and no __dict__
Repr(i) ==
    /\ stored_search_query[i] # NoStr
    /\ repr_raised' = "TypeError"
    /\ UNCHANGED <<service_version, stored_search_query, ctor_version, reads>>
    /\ UNCHANGED pipeline_vars
    /\ UNCHANGED filter_vars

\* search_for_pages handing the slot _search_query itself to the GET
CallSearchForPagesStored(i, s) ==
    /\ stored_search_query[i] # NoStr
    /\ pc[i] \in {"idle", "done"}
    /\ pc' = [pc EXCEPT ![i] = "awaiting_get"]
    /\ site' = [site EXCEPT ![i] = s]
    /\ requested' = [requested EXCEPT ![i] = <<stored_search_query[i]>>]
    /\ response' = [response EXCEPT ![i] = NoResponse]
    /\ urls' = [urls EXCEPT ![i] = NoList]
    /\ result' = [result EXCEPT ![i] = NoList]
    /\ outcome' = [outcome EXCEPT ![i] = "running"]
    /\ UNCHANGED <<service_version, stored_search_query, ctor_version, reads,
                   repr_raised>>
    /\ UNCHANGED filter_vars

\* search_for_pages(site) up to its await: reads self.search_query and
\* hands it to AsyncHTMLSession().get
CallSearchForPages(i, s) ==
    /\ stored_search_query[i] # NoStr
    /\ pc[i] \in {"idle", "done"}
    /\ pc' = [pc EXCEPT ![i] = "awaiting_get"]
    /\ site' = [site EXCEPT ![i] = s]
    /\ requested' = [requested EXCEPT
                        ![i] = <<search_query_get(stored_search_query[i])>>]
    /\ response' = [response EXCEPT ![i] = NoResponse]
    /\ urls' = [urls EXCEPT ![i] = NoList]
    /\ result' = [result EXCEPT ![i] = NoList]
    /\ outcome' = [outcome EXCEPT ![i] = "running"]
    /\ UNCHANGED <<service_version, stored_search_query, ctor_version, reads,
                   repr_raised>>
    /\ UNCHANGED filter_vars

\* a GET whose response lands in a slot every finder shares
GetReturnsShared(i, r) ==
    /\ pc[i] = "awaiting_get"
    /\ response' = [j \in Inst |-> r]
    /\ pc' = [pc EXCEPT ![i] = "extract"]
    /\ UNCHANGED <<service_version, stored_search_query, ctor_version, reads,
                   repr_raised, site, requested, urls, result, outcome>>
    /\ UNCHANGED filter_vars

\* the awaited GET completes with a response; requests does not raise on
\* the status, and nothing calls raise_for_status
GetReturns(i, r) ==
    /\ pc[i] = "awaiting_get"
    /\ response' = [response EXCEPT ![i] = r]
    /\ pc' = [pc EXCEPT ![i] = "extract"]
    /\ UNCHANGED <<service_version, stored_search_query, ctor_version, reads,
                   repr_raised, site, requested, urls, result, outcome>>
    /\ UNCHANGED filter_vars

\* a get that is sent a second time when the first one raises
GetRaisesRetry(i, e) ==
    /\ pc[i] = "awaiting_get"
    /\ requested' = [requested EXCEPT ![i] = Append(@, @[1])]
    /\ IF Len(requested[i]) >= 2
       THEN /\ outcome' = [outcome EXCEPT ![i] = e]
            /\ pc' = [pc EXCEPT ![i] = "done"]
       ELSE UNCHANGED <<outcome, pc>>
    /\ UNCHANGED <<service_version, stored_search_query, ctor_version, reads,
                   repr_raised, site, response, urls, result>>
    /\ UNCHANGED filter_vars

\* the awaited GET raises; no except clause, the exception leaves
\* search_for_pages
GetRaises(i, e) ==
    /\ pc[i] = "awaiting_get"
    /\ outcome' = [outcome EXCEPT ![i] = e]
    /\ pc' = [pc EXCEPT ![i] = "done"]
    /\ UNCHANGED <<service_version, stored_search_query, ctor_version, reads,
                   repr_raised, site, requested, response, urls, result>>
    /\ UNCHANGED filter_vars

\* a return that turns an empty list into None
ExtractAndFilterOrNone(i, l) ==
    /\ pc[i] = "extract"
    /\ l \in ListsOf(response[i].absolute_links)
    /\ urls' = [urls EXCEPT ![i] = l]
    /\ result' = [result EXCEPT
                     ![i] = IF filter_extracted_urls(site[i], l) = <<>>
                            THEN NoList
                            ELSE filter_extracted_urls(site[i], l)]
    /\ outcome' = [outcome EXCEPT ![i] = "returned"]
    /\ pc' = [pc EXCEPT ![i] = "done"]
    /\ UNCHANGED <<service_version, stored_search_query, ctor_version, reads,
                   repr_raised, site, requested, response>>
    /\ UNCHANGED filter_vars

\* return self.filter_extracted_urls(site, urls=self.__extract_urls(response))
\* __extract_urls gives list(set), in the order l the set iterates
ExtractAndFilter(i, l) ==
    /\ pc[i] = "extract"
    /\ l \in ListsOf(response[i].absolute_links)
    /\ urls' = [urls EXCEPT ![i] = l]
    /\ result' = [result EXCEPT ![i] = filter_extracted_urls(site[i], l)]
    /\ outcome' = [outcome EXCEPT ![i] = "returned"]
    /\ pc' = [pc EXCEPT ![i] = "done"]
    /\ UNCHANGED <<service_version, stored_search_query, ctor_version, reads,
                   repr_raised, site, requested, response>>
    /\ UNCHANGED filter_vars

\* a parse failure caught inside search_for_pages and answered with []
ExtractRaisesSwallowed(i) ==
    /\ pc[i] = "extract"
    /\ result' = [result EXCEPT ![i] = <<>>]
    /\ outcome' = [outcome EXCEPT ![i] = "returned"]
    /\ pc' = [pc EXCEPT ![i] = "done"]
    /\ UNCHANGED <<service_version, stored_search_query, ctor_version, reads,
                   repr_raised, site, requested, response, urls>>
    /\ UNCHANGED filter_vars

\* response.html cannot be parsed: the exception leaves search_for_pages
ExtractRaises(i) ==
    /\ pc[i] = "extract"
    /\ outcome' = [outcome EXCEPT ![i] = ParserError]
    /\ pc' = [pc EXCEPT ![i] = "done"]
    /\ UNCHANGED <<service_version, stored_search_query, ctor_version, reads,
                   repr_raised, site, requested, response, urls, result>>
    /\ UNCHANGED filter_vars

\* a direct call of the static method filter_extracted_urls
CallFilter ==
    /\ f_ret = NoList
    /\ f_ret' = filter_extracted_urls(f_site, f_urls)
    /\ UNCHANGED <<service_version, stored_search_query, ctor_version, reads,
                   repr_raised, f_site, f_urls>>
    /\ UNCHANGED pipeline_vars

\* the caller drops the returned list and keeps the arguments
DropFiltered ==
    /\ f_ret # NoList
    /\ f_ret' = NoList
    /\ UNCHANGED <<service_version, stored_search_query, ctor_version, reads,
                   repr_raised, f_site, f_urls>>
    /\ UNCHANGED pipeline_vars

\* ------------------------------------------------------------------------
\* Specifications
\* ------------------------------------------------------------------------
IdlePipeline ==
    /\ pc = [i \in Inst |-> "idle"]
    /\ site = [i \in Inst |-> NoStr]
    /\ requested = [i \in Inst |-> <<>>]
    /\ response = [i \in Inst |-> NoResponse]
    /\ urls = [i \in Inst |-> NoList]
    /\ result = [i \in Inst |-> NoList]
    /\ outcome = [i \in Inst |-> "none"]

NoFilterCall ==
    /\ f_site = <<>>
    /\ f_urls = <<>>
    /\ f_ret = NoList

\* two finders, constructed, no call made yet
Init ==
    /\ service_version = NoStr
    /\ ctor_version = InitialVersion
    /\ stored_search_query = [i \in Inst |-> search_query_set(ctor_version[i])]
    /\ reads = [i \in Inst |-> <<>>]
    /\ repr_raised = "none"
    /\ IdlePipeline
    /\ NoFilterCall

Next ==
    \/ \E i \in Inst, v \in MainVersions : AssignQuery(i, v)
    \/ \E i \in Inst : Repr(i)
    \/ \E i \in Inst, s \in Sites : CallSearchForPages(i, s)
    \/ \E i \in Inst, r \in Responses : GetReturns(i, r)
    \/ \E i \in Inst, e \in RequestExceptions : GetRaises(i, e)
    \/ \E i \in Inst, l \in StringsUpTo(Links, Cardinality(Links)) :
           ExtractAndFilter(i, l)
    \/ \E i \in Inst : ExtractRaises(i)

Spec == Init /\ [][Next]_vars

\* construction and reads of the query: one version string, two finders
InitQuery ==
    /\ service_version \in VersionStrings
    /\ ctor_version = [i \in Inst |-> NoStr]
    /\ stored_search_query = [i \in Inst |-> NoStr]
    /\ reads = [i \in Inst |-> <<>>]
    /\ repr_raised = "none"
    /\ IdlePipeline
    /\ NoFilterCall

NextQuery ==
    \/ \E i \in Inst : Construct(i)
    \/ \E i \in Inst : ReadQuery(i)

SpecQuery == InitQuery /\ [][NextQuery]_vars

FilterAlphabet == {"a", "b"}

\* the strings filter_extracted_urls is tried on: every string over
\* FilterAlphabet up to MaxUrlLen, and the documented URLs
FilterStrings ==
    StringsUpTo(FilterAlphabet, MaxUrlLen)
        \cup {ExploitDbSite, ExploitDbUrl, CveDetailsUrl, EvilPathUrl, EvilHostUrl}

InitFilter ==
    /\ service_version = NoStr
    /\ ctor_version = [i \in Inst |-> NoStr]
    /\ stored_search_query = [i \in Inst |-> NoStr]
    /\ reads = [i \in Inst |-> <<>>]
    /\ repr_raised = "none"
    /\ IdlePipeline
    /\ f_site \in FilterStrings
    /\ f_urls \in StringsUpTo(FilterStrings, MaxUrls)
    /\ f_ret = NoList

NextFilter ==
    \/ CallFilter
    \/ DropFiltered

SpecFilter == InitFilter /\ [][NextFilter]_vars

\* ------------------------------------------------------------------------
\* Reference definitions the properties are stated with
\* ------------------------------------------------------------------------
\* the query-string percent-encoding of one character, written out
PercentEncoded(c) ==
    CASE c = " " -> <<"+">>
      [] c = "%" -> <<"%","2","5">>
      [] c = "&" -> <<"%","2","6">>
      [] c = "+" -> <<"%","2","B">>
      [] c = "=" -> <<"%","3","D">>
      [] c = "U+00E9" -> <<"%","C","3","%","A","9">>
      [] c = "U+20AC" -> <<"%","E","2","%","8","2","%","A","C">>
      [] OTHER -> <<c>>

ExpectedStored(V) ==
    base_query \o Flatten([k \in 1..Len(V) |-> PercentEncoded(V[k])])

GoogleOpenSSH72 ==
    <<"h","t","t","p","s",":","/","/","w","w","w",".","g","o","o","g","l","e",
      ".","c","o",".","u","k","/","s","e","a","r","c","h","?","q","=",
      "O","p","e","n","S","S","H","+","7",".","2">>

GoogleOpenSSH72Exploit ==
    GoogleOpenSSH72 \o <<" ","e","x","p","l","o","i","t">>

IsLiteralPrefix(p, u) ==
    /\ Len(p) <= Len(u)
    /\ \A k \in 1..Len(p) : u[k] = p[k]

\* the positions of l whose element starts with p
MatchingAt(p, l) == {k \in DOMAIN l : IsLiteralPrefix(p, l[k])}

\* l holds exactly the elements of the set S, each once
Enumerates(l, S) ==
    /\ Len(l) = Cardinality(S)
    /\ {l[k] : k \in DOMAIN l} = S

Constructed(i) == stored_search_query[i] # NoStr

QueryPart(i) ==
    SubSeq(stored_search_query[i], Len(base_query) + 1,
           Len(stored_search_query[i]))

Count(s, c) == Cardinality({k \in DOMAIN s : s[k] = c})

\* the number of UTF-8 bytes of c: 1 for ASCII, 2 and 3 for the two
\* non-ASCII characters of VersionAlphabet
ByteCount(c) == CASE c = "U+00E9" -> 2 [] c = "U+20AC" -> 3 [] OTHER -> 1

Unreserved(c) == c \in {"a", "7", "O", "p", "e", "n", "S", "H", ".", "2"}

RECURSIVE SumBytes(_)
SumBytes(V) ==
    IF V = <<>> THEN 0
    ELSE (IF Unreserved(Head(V)) \/ Head(V) = " " THEN 0 ELSE ByteCount(Head(V)))
         + SumBytes(Tail(V))

Succeeded(i) ==
    /\ response[i] # NoResponse
    /\ response[i].status_code \in 200..299

\* the links of finder i's response that start with the site it was asked for
OwnMatches(i) ==
    {u \in response[i].absolute_links : IsLiteralPrefix(site[i], u)}

InstState(i) ==
    <<stored_search_query[i], pc[i], site[i], requested[i], response[i],
      urls[i], result[i], outcome[i]>>

\* ------------------------------------------------------------------------
\* Properties
\* ------------------------------------------------------------------------
\* C1: a finder constructed from a non-empty version V stores
\* base + percent_encode(V); every read of search_query is that stored value
\* followed by the literal " exploit"; two finders built from the same V and
\* two reads of one finder agree; for "OpenSSH 7.2" the stored and the read
\* value are the documented URLs.
C1_QueryAccessor ==
    \A i \in Inst : Constructed(i) =>
        /\ service_version # <<>>
        /\ stored_search_query[i] = ExpectedStored(service_version)
        /\ \A k \in DOMAIN reads[i] :
               reads[i][k] = stored_search_query[i] \o ExploitSuffix
        /\ \A j \in Inst : Constructed(j) =>
               /\ stored_search_query[j] = stored_search_query[i]
               /\ \A k \in DOMAIN reads[i], m \in DOMAIN reads[j] :
                      reads[i][k] = reads[j][m]
        /\ service_version = OpenSSH72 =>
               /\ stored_search_query[i] = GoogleOpenSSH72
               /\ \A k \in DOMAIN reads[i] : reads[i][k] = GoogleOpenSSH72Exploit

C1_Witness ==
    /\ service_version = OpenSSH72
    /\ \A i \in Inst : Constructed(i) /\ Len(reads[i]) = 2

\* C9: decoding the part of the stored URL after "search?q=" gives back the
\* version string, and every reserved character is encoded exactly once: the
\* encoded part holds one "%" per UTF-8 byte of a character that is neither
\* unreserved nor a space.
C9_RoundTrip ==
    \A i \in Inst : Constructed(i) =>
        /\ IsLiteralPrefix(base_query, stored_search_query[i])
        /\ unquote_plus(QueryPart(i)) = service_version
        /\ Count(QueryPart(i), "%") = SumBytes(service_version)

C9_Witness ==
    /\ \E i \in Inst : Constructed(i)
    /\ Len(service_version) = 2
    /\ Chars(service_version) \cap {"&", "=", "+", "%", " "} # {}
    /\ Chars(service_version) \cap {"U+00E9", "U+20AC"} # {}

C3_FailuresDistinguished ==
    \A i \in Inst : pc[i] = "done" =>
        /\ response[i] = NoResponse => outcome[i] \in RequestExceptions
        /\ (response[i] # NoResponse /\ ~Succeeded(i)) =>
               /\ outcome[i] # "returned"
               /\ outcome[i] \notin RequestExceptions
               /\ result[i] = NoList

\* C4: a finished search_for_pages either returned the complete filtered
\* list of the links of its response, or ended in an error with no list;
\* before it finishes there is no list.
C4_AllOrNothing ==
    \A i \in Inst :
        /\ pc[i] = "done" =>
               \/ /\ outcome[i] = "returned"
                  /\ response[i] # NoResponse
                  /\ result[i] # NoList
                  /\ Enumerates(result[i], OwnMatches(i))
               \/ /\ outcome[i] \in RequestExceptions \cup {ParserError}
                  /\ result[i] = NoList
        /\ pc[i] # "done" => result[i] = NoList

C4_Witness ==
    /\ pc["finder_a"] = "done" /\ outcome["finder_a"] = ParserError
    /\ response["finder_a"].absolute_links = Links
    /\ pc["finder_b"] = "done" /\ outcome["finder_b"] = "returned"
    /\ Len(result["finder_b"]) = 1

\* C5: one invocation of search_for_pages passes exactly one URL to GET,
\* whether the GET returns or raises, and a GET that raises ends the call
\* with that exception.
C5_SingleGet ==
    \A i \in Inst :
        /\ pc[i] = "idle" => requested[i] = <<>>
        /\ pc[i] # "idle" => Len(requested[i]) = 1
        /\ (pc[i] = "done" /\ response[i] = NoResponse) =>
               outcome[i] \in RequestExceptions /\ result[i] = NoList

C5_Witness ==
    /\ pc["finder_a"] = "done" /\ outcome["finder_a"] = "Timeout"
    /\ pc["finder_b"] = "done" /\ outcome["finder_b"] = "returned"

\* C6: the URL search_for_pages passes to GET is the stored query followed
\* by " exploit", never the stored query alone.
C6_RequestsReadTimeQuery ==
    [][\A i \in Inst : requested'[i] # requested[i] =>
          /\ requested'[i] = <<stored_search_query[i] \o ExploitSuffix>>
          /\ requested'[i][1] # stored_search_query[i]
          /\ Len(requested'[i][1]) = Len(stored_search_query[i]) + 8]_vars

C6_Witness ==
    /\ requested["finder_a"] = <<GoogleOpenSSH72Exploit>>
    /\ pc["finder_a"] = "awaiting_get"

\* C7 as claimed: whatever operations ran, the stored query is
\* base + percent_encode(V) for the V the constructor got.
C7_StoredNeverChanges ==
    \A i \in Inst : stored_search_query[i] = ExpectedStored(ctor_version[i])

\* C7 amended: the stored query starts as base + percent_encode(V); only an
\* assignment to search_query changes it, to base + percent_encode(W) of the
\* assigned W; search_for_pages (with its read of search_query and its
\* filtering) and repr leave it as it is.
C7_StoredChangesOnlyByAssignment ==
    /\ \A i \in Inst : stored_search_query[i] = ExpectedStored(ctor_version[i])
    /\ [][\A i \in Inst :
            /\ \E w \in MainVersions : stored_search_query'[i] = ExpectedStored(w)
            /\ stored_search_query'[i] # stored_search_query[i] =>
                  /\ UNCHANGED pipeline_vars
                  /\ UNCHANGED repr_raised]_vars

C7_Witness ==
    \E i \in Inst :
        /\ stored_search_query[i] # ExpectedStored(ctor_version[i])
        /\ pc[i] = "done"
        /\ repr_raised = "TypeError"

\* C8: calls on different finders do not touch each other: a step changes
\* the state of one finder at most; a call requests the query of its own
\* finder; the list a call returns is the filter of its own response.
C8_CallsIndependent ==
    [][\A i \in Inst :
          /\ \A j \in Inst \ {i} :
                InstState(i)' # InstState(i) => InstState(j)' = InstState(j)
          /\ (pc'[i] = "awaiting_get" /\ pc[i] # "awaiting_get") =>
                requested'[i] = <<search_query_get(stored_search_query[i])>>
          /\ (result'[i] # result[i] /\ result'[i] # NoList) =>
                /\ response'[i] = response[i]
                /\ Enumerates(result'[i], OwnMatches(i))]_vars

C8_Witness ==
    /\ \A i \in Inst : pc[i] = "done" /\ outcome[i] = "returned"
    /\ requested["finder_a"] # requested["finder_b"]
    /\ result["finder_a"] = <<ExploitDbUrl>>
    /\ result["finder_b"] = <<CveDetailsUrl>>

====
